---- MODULE Spec2Model ----
(***************************************************************************)
(* A model of binddict (src/__init__.py): bind(data, mapping) walks a      *)
(* schema ("mapping") and a data value in lock-step, type-checks or        *)
(* coerces each value, writes destinations into a flat output dictionary   *)
(* and raises a BindException subclass at the first violation.             *)
(*                                                                         *)
(* Python values are records tagged with their runtime type:               *)
(*   str   [ty |-> "str",   s |-> sequence of one-character strings]       *)
(*   int   [ty |-> "int",   n |-> integer]                                 *)
(*   float [ty |-> "float", m |-> mantissa, e |-> decimal places]          *)
(*         (the number m / 10^e, with m not divisible by 10 when e > 0)    *)
(*   None  [ty |-> "NoneType"]                                             *)
(*   list  [ty |-> "list",  l |-> sequence of values]                      *)
(*   dict  [ty |-> "dict",  items |-> sequence of <<key, value>>], in      *)
(*         insertion order, keys pairwise different                        *)
(* A schema node is a record holding only the keys its Python dict holds,  *)
(* so that mapping.get(key, default) is modelled with its default.         *)
(***************************************************************************)
EXTENDS Integers, Sequences, FiniteSets, TLC

VARIABLES data, schema, out, stack, pc, err, visited, iterated, failLoc

vars == <<data, schema, out, stack, pc, err, visited, iterated, failLoc>>

(***************************************************************************)
(* Python values                                                           *)
(***************************************************************************)
PyStr(s) == [ty |-> "str", s |-> s]

PyInt(n) == [ty |-> "int", n |-> n]

PyFloat(m, e) == [ty |-> "float", m |-> m, e |-> e]

PyNone == [ty |-> "NoneType"]

PyList(l) == [ty |-> "list", l |-> l]

PyDict(items) == [ty |-> "dict", items |-> items]

TypeOf(value) == value.ty

Abs(n) == IF n < 0 THEN -n ELSE n

RECURSIVE Pow10(_)
Pow10(e) == IF e = 0 THEN 1 ELSE 10 * Pow10(e - 1)

DigitChars == <<"0", "1", "2", "3", "4", "5", "6", "7", "8", "9">>

IsDigit(c) == \E i \in 1..Len(DigitChars) : DigitChars[i] = c

DigitVal(c) == (CHOOSE i \in 1..Len(DigitChars) : DigitChars[i] = c) - 1

RECURSIVE DigitsVal(_)
DigitsVal(s) ==
    IF s = <<>> THEN 0
    ELSE DigitsVal(SubSeq(s, 1, Len(s) - 1)) * 10 + DigitVal(s[Len(s)])

RECURSIVE NatToChars(_)
NatToChars(n) ==
    IF n < 10 THEN <<DigitChars[n + 1]>>
    ELSE NatToChars(n \div 10) \o <<DigitChars[(n % 10) + 1]>>

\* repr of an int: decimal digits, "-" in front of a negative one.
IntRepr(n) == IF n < 0 THEN <<"-">> \o NatToChars(-n) ELSE NatToChars(n)

RECURSIVE PadZeros(_, _)
PadZeros(s, width) == IF Len(s) >= width THEN s ELSE PadZeros(<<"0">> \o s, width)

\* repr of a float m / 10^e (the positional form Python prints for
\* 1e-4 <= |x| < 1e16): integer part, ".", at least one fractional digit.
FloatRepr(m, e) ==
    LET a == Abs(m)
        sign == IF m < 0 THEN <<"-">> ELSE <<>>
        whole == NatToChars(a \div Pow10(e))
        frac == IF e = 0 THEN <<"0">> ELSE PadZeros(NatToChars(a % Pow10(e)), e)
    IN sign \o whole \o <<".">> \o frac

RECURSIVE NormFloat(_, _)
NormFloat(m, e) ==
    IF e > 0 /\ m % 10 = 0 THEN NormFloat(m \div 10, e - 1) ELSE PyFloat(m, e)

Unsigned(s) == IF s # <<>> /\ s[1] = "-" THEN Tail(s) ELSE s

SignOf(s) == IF s # <<>> /\ s[1] = "-" THEN -1 ELSE 1

\* int(str) accepts an optional sign and one or more digits (strings here hold
\* no whitespace, "+" or "_", which int() would also accept in places).
IntParses(s) ==
    /\ Unsigned(s) # <<>>
    /\ \A i \in 1..Len(Unsigned(s)) : IsDigit(Unsigned(s)[i])

IntParse(s) == PyInt(SignOf(s) * DigitsVal(Unsigned(s)))

DotPositions(s) == {i \in 1..Len(s) : s[i] = "."}

\* float(str) accepts an optional sign, digits with at most one ".", and at
\* least one digit (strings here hold no exponent, "inf", "nan" or whitespace).
FloatParses(s) ==
    LET u == Unsigned(s) IN
    /\ \A i \in 1..Len(u) : IsDigit(u[i]) \/ u[i] = "."
    /\ Cardinality(DotPositions(u)) <= 1
    /\ \E i \in 1..Len(u) : IsDigit(u[i])

FloatParse(s) ==
    LET u == Unsigned(s)
        dots == DotPositions(u)
        p == IF dots = {} THEN Len(u) + 1 ELSE CHOOSE i \in dots : TRUE
        whole == SubSeq(u, 1, p - 1)
        frac == SubSeq(u, p + 1, Len(u))
    IN NormFloat(SignOf(s) * DigitsVal(whole \o frac), Len(frac))

RECURSIVE Join(_, _)
Join(parts, sep) ==
    IF parts = <<>> THEN <<>>
    ELSE IF Len(parts) = 1 THEN parts[1]
    ELSE parts[1] \o sep \o Join(Tail(parts), sep)

\* repr(value); a str is quoted (strings here hold no quote, backslash or
\* unprintable character).
RECURSIVE Repr(_)
Repr(value) ==
    CASE value.ty = "str" -> <<"'">> \o value.s \o <<"'">>
      [] value.ty = "int" -> IntRepr(value.n)
      [] value.ty = "float" -> FloatRepr(value.m, value.e)
      [] value.ty = "NoneType" -> <<"N", "o", "n", "e">>
      [] value.ty = "list" ->
            <<"[">> \o Join([i \in 1..Len(value.l) |-> Repr(value.l[i])], <<",", " ">>)
                    \o <<"]">>
      [] value.ty = "dict" ->
            <<"{">> \o Join([i \in 1..Len(value.items) |->
                               Repr(value.items[i][1]) \o <<":", " ">>
                                 \o Repr(value.items[i][2])], <<",", " ">>)
                    \o <<"}">>

\* Equality of two dict keys: numbers compare by value across int and float,
\* everything else by type and content.
KeyEq(a, b) ==
    IF a.ty = "int" /\ b.ty = "float" THEN b.e = 0 /\ b.m = a.n
    ELSE IF a.ty = "float" /\ b.ty = "int" THEN a.e = 0 /\ a.m = b.n
    ELSE a = b

\* key in d
HasKey(d, key) == \E i \in 1..Len(d.items) : KeyEq(d.items[i][1], key)

\* d[key]
GetItem(d, key) ==
    d.items[CHOOSE i \in 1..Len(d.items) : KeyEq(d.items[i][1], key)][2]

\* d[key] = value on an insertion-ordered dict
SetItem(items, key, value) ==
    IF \E i \in 1..Len(items) : KeyEq(items[i][1], key)
    THEN [i \in 1..Len(items) |->
            IF KeyEq(items[i][1], key) THEN <<items[i][1], value>> ELSE items[i]]
    ELSE Append(items, <<key, value>>)

Hashable(value) == value.ty \notin {"list", "dict"}

(***************************************************************************)
(* The casts of the non-strict branch (lines 217-226).  A cast yields      *)
(* [exc |-> "none", val |-> result] or names the exception it raises.      *)
(***************************************************************************)
Ok(value) == [exc |-> "none", val |-> value]

Raises(exc) == [exc |-> exc, val |-> PyNone]

\* str(value): a str is itself, anything else is its repr.
CastStr(value) == Ok(IF value.ty = "str" THEN value ELSE PyStr(Repr(value)))

\* int(value): an int is itself, a float is truncated towards zero, a str is
\* parsed (ValueError when it is no integer literal), anything else is a
\* TypeError.
CastInt(value) ==
    CASE value.ty = "int" -> Ok(value)
      [] value.ty = "float" ->
            Ok(PyInt((IF value.m < 0 THEN -1 ELSE 1) * (Abs(value.m) \div Pow10(value.e))))
      [] value.ty = "str" ->
            IF IntParses(value.s) THEN Ok(IntParse(value.s)) ELSE Raises("ValueError")
      [] OTHER -> Raises("TypeError")

\* float(value): likewise.
CastFloat(value) ==
    CASE value.ty = "float" -> Ok(value)
      [] value.ty = "int" -> Ok(PyFloat(value.n, 0))
      [] value.ty = "str" ->
            IF FloatParses(value.s) THEN Ok(FloatParse(value.s)) ELSE Raises("ValueError")
      [] OTHER -> Raises("TypeError")

\* The elements iterating over a value yields; only for str, list and dict.
Elements(value) ==
    CASE value.ty = "str" -> [i \in 1..Len(value.s) |-> PyStr(<<value.s[i]>>)]
      [] value.ty = "list" -> value.l
      [] value.ty = "dict" -> [i \in 1..Len(value.items) |-> value.items[i][1]]

Iterable(value) == value.ty \in {"str", "list", "dict"}

\* dict(sequence) takes the elements in order: one that is not iterable is a
\* TypeError, one that does not hold exactly two elements is a ValueError, an
\* unhashable key is a TypeError; a later pair replaces an earlier one with an
\* equal key.
RECURSIVE DictFromPairs(_, _)
DictFromPairs(elems, items) ==
    IF elems = <<>> THEN Ok(PyDict(items))
    ELSE LET el == elems[1] IN
         IF ~Iterable(el) THEN Raises("TypeError")
         ELSE IF Len(Elements(el)) # 2 THEN Raises("ValueError")
         ELSE IF ~Hashable(Elements(el)[1]) THEN Raises("TypeError")
         ELSE DictFromPairs(Tail(elems),
                            SetItem(items, Elements(el)[1], Elements(el)[2]))

\* dict(value): a dict is copied (an equal value), a str or a list is read as a
\* sequence of pairs, anything else is not iterable.
CastDict(value) ==
    CASE value.ty = "dict" -> Ok(value)
      [] value.ty \in {"str", "list"} -> DictFromPairs(Elements(value), <<>>)
      [] OTHER -> Raises("TypeError")

\* list(value): the elements of an iterable, a TypeError for anything else.
CastList(value) ==
    IF Iterable(value) THEN Ok(PyList(Elements(value))) ELSE Raises("TypeError")

\* Lines 217-226: the cast chosen by the expected type.  No branch of the
\* if/elif chain assigns final_value for another type; line 208 has rejected
\* those before.
Coerce(t, value) ==
    CASE t = "str" -> CastStr(value)
      [] t = "int" -> CastInt(value)
      [] t = "float" -> CastFloat(value)
      [] t = "dict" -> CastDict(value)
      [] t = "list" -> CastList(value)
      [] OTHER -> Raises("UnboundLocalError")

(***************************************************************************)
(* The exceptions (lines 1-109) as records of the attributes their         *)
(* __init__ sets.  A built-in exception that leaves bind is a record of    *)
(* its kind alone.                                                         *)
(***************************************************************************)
NoErr == [kind |-> "none"]

BindException(path, msg) == [kind |-> "BindException", path |-> path, msg |-> msg]

InvalidTypeException(path, found_type, expected_type, value, strict) ==
    [kind |-> "InvalidTypeException", path |-> path, found_type |-> found_type,
     expected_type |-> expected_type, value |-> value, strict |-> strict]

InvalidStringLengthException(path, value, constraint) ==
    [kind |-> "InvalidStringLengthException", path |-> path, value |-> value,
     constraint |-> constraint]

RequiredValueMissingException(path, key) ==
    [kind |-> "RequiredValueMissingException", path |-> path, key |-> key]

BuiltinException(kind) == [kind |-> kind]

(***************************************************************************)
(* The pieces of __bind (lines 205-253)                                    *)
(***************************************************************************)
\* mapping.get(key, default)
Get(mapping, key, default) == IF key \in DOMAIN mapping THEN mapping[key] ELSE default

\* IsKnownType without the check of line 208
IsKnownTypeUnchecked(t) == TRUE

\* line 208: t not in [str, int, float, dict, list]
IsKnownType(t) == t \in {"str", "int", "float", "dict", "list"}

\* line 209: "Unknown expected type: " + str(t)
UnknownTypeMsg(t) == <<"Unknown expected type: ", t>>

\* StrictTypeMatches as isinstance would have it for numbers: an int where a
\* float is expected
StrictTypeMatchesNumeric(value, t) ==
    TypeOf(value) = t \/ (t = "float" /\ TypeOf(value) = "int")

\* line 212: type(value) is not t
StrictTypeMatches(value, t) == TypeOf(value) = t

\* line 227: except ValueError
CaughtByExcept(exc) == exc = "ValueError"

\* lines 211-228: the type resolution, as the exception raised (NoErr when
\* none) and final_value.
TypeResolution(value, t, strict, path) ==
    IF strict
    THEN IF ~StrictTypeMatches(value, t)
         THEN [err |-> InvalidTypeException(path, TypeOf(value), t, value, TRUE),
               final |-> PyNone]
         ELSE [err |-> NoErr, final |-> value]
    ELSE LET c == Coerce(t, value) IN
         IF c.exc = "none" THEN [err |-> NoErr, final |-> c.val]
         ELSE IF CaughtByExcept(c.exc)
         THEN [err |-> InvalidTypeException(path, TypeOf(value), t, value, FALSE),
               final |-> PyNone]
         ELSE [err |-> BuiltinException(c.exc), final |-> PyNone]

\* DestinationSet as "destination is not None"
DestinationKeyPresent(mapping) == "destination" \in DOMAIN mapping

\* lines 230-231: destination = mapping.get('destination', None); if destination
\* (a destination is a string here, and the empty string is false).
DestinationSet(mapping) == "destination" \in DOMAIN mapping /\ mapping.destination # ""

\* StoreDestination as out.setdefault(destination, final_value)
StoreIfAbsent(mem, destination, final_value) ==
    IF destination \in DOMAIN mem.out THEN mem
    ELSE [mem EXCEPT !.out = [d \in DOMAIN mem.out \cup {destination} |->
                                 IF d = destination THEN final_value ELSE mem.out[d]]]

\* line 232: out[destination] = final_value, on the objects the call can reach:
\* the caller's data and schema, and the call's out.
StoreDestination(mem, destination, final_value) ==
    [mem EXCEPT !.out = [d \in DOMAIN mem.out \cup {destination} |->
                            IF d = destination THEN final_value ELSE mem.out[d]]]

\* lines 237 and 241: '>= ' + str(min_len), '<= ' + str(max_len)
ConstraintText(op, bound) == op \o <<" ">> \o CastStr(PyInt(bound)).val.s

\* LengthViolation with max_len tested before min_len
LengthViolationMaxFirst(mapping, final_value) ==
    IF "max_len" \in DOMAIN mapping /\ mapping.max_len # 0
       /\ Len(final_value.s) > mapping.max_len
    THEN ConstraintText(<<"<", "=">>, mapping.max_len)
    ELSE IF "min_len" \in DOMAIN mapping /\ mapping.min_len # 0
            /\ Len(final_value.s) < mapping.min_len
    THEN ConstraintText(<<">", "=">>, mapping.min_len)
    ELSE <<>>

\* lines 235-241: the constraint a str final_value violates, <<>> when none
\* (min_len and max_len are ints here; 0 is false, like an absent key).
LengthViolation(mapping, final_value) ==
    IF "min_len" \in DOMAIN mapping /\ mapping.min_len # 0
       /\ Len(final_value.s) < mapping.min_len
    THEN ConstraintText(<<">", "=">>, mapping.min_len)
    ELSE IF "max_len" \in DOMAIN mapping /\ mapping.max_len # 0
            /\ Len(final_value.s) > mapping.max_len
    THEN ConstraintText(<<"<", "=">>, mapping.max_len)
    ELSE <<>>

\* line 243: children = mapping.get('children', {}), as the sequence of
\* (key, node) pairs that children.items() yields.
ChildrenOf(mapping) == Get(mapping, "children", <<>>)

\* lines 245-246: path = list(path); path.append(key)
ExtendPath(path, key) == Append(path, key)

\* IsOptional with the default True
IsOptionalByDefault(node) == Get(node, "optional", TRUE)

\* line 248: optional = node.get('optional', False)
IsOptional(node) == Get(node, "optional", FALSE)

\* line 249: key not in final_value
ChildPresent(key, final_value) == HasKey(final_value, key)

\* lines 202, 253: a frame of __bind.  loc is the place of the node in the
\* schema (the keys of the descents that led to it); it is not a Python
\* variable.  i = 0 before the body has run, then the next child of the loop.
Frame(value, mapping, path, loc) ==
    [value |-> value, mapping |-> mapping, path |-> path, loc |-> loc,
     final_value |-> PyNone, i |-> 0]

Top == stack[Len(stack)]

Pop(stk) == SubSeq(stk, 1, Len(stk) - 1)

\* PropagateException with the recursive call of line 253 inside a try that
\* swallows the exception: only the raising frame is left
CaughtByCaller(stk) == SubSeq(stk, 1, Len(stk) - 1)

\* No frame of __bind and not bind itself catches an exception (lines 200-253
\* hold one try, around the casts): a raise unwinds every frame.
PropagateException(stk) == <<>>

\* NewOut with out kept from one call to the next (a module-level or default-
\* argument dictionary)
KeepOut(previous) == previous

\* line 200: out = {}
NewOut(previous) == [d \in {} |-> PyNone]

\* line 202: the path of the root
RootPath == <<PyStr(<<"r", "o", "o", "t">>)>>

(***************************************************************************)
(* The inputs: the schemas a caller builds and the data it binds           *)
(***************************************************************************)
MaxLenConstraint == 3

KName == PyStr(<<"n", "a", "m", "e">>)

KInfo == PyStr(<<"i", "n", "f", "o">>)

KAge == PyStr(<<"a", "g", "e">>)

KZip == PyStr(<<"z", "i", "p">>)

KNotUsed == PyStr(<<"n", "o", "t", "_", "u", "s", "e", "d">>)

\* "tuple" stands for a type that is none of the five of line 208.
TypeNames == {"str", "int", "float", "dict", "list", "tuple"}

NoField == [k \in {} |-> TRUE]

StrictFields == {NoField, [strict |-> TRUE], [strict |-> FALSE]}

DestinationFields == {NoField, [destination |-> ""], [destination |-> "x"]}

MinLenFields == {NoField} \cup {[min_len |-> k] : k \in 0..MaxLenConstraint}

MaxLenFields == {NoField} \cup {[max_len |-> k] : k \in 0..MaxLenConstraint}

\* Schemas of one node: every type, strict flag and destination, and every
\* pair of length constraints on a str.
SingleNodes ==
    {[type |-> t] @@ s @@ d : t \in TypeNames \ {"str"}, s \in StrictFields,
                              d \in DestinationFields}
    \cup {[type |-> "str"] @@ s @@ d @@ mn @@ mx :
            s \in StrictFields, d \in DestinationFields,
            mn \in MinLenFields, mx \in MaxLenFields}

\* The nodes below info.
AgeStrict == [type |-> "int", destination |-> "x"]

AgeCast == [type |-> "int", strict |-> FALSE, destination |-> "age"]

ZipOptional == [type |-> "str", optional |-> TRUE, destination |-> "y", max_len |-> 2]

\* The nodes a mapping schema puts under its keys.
ChildNodes ==
    { [type |-> "int", destination |-> "x"],
      [type |-> "int", strict |-> FALSE, destination |-> "y"],
      [type |-> "str", strict |-> FALSE, destination |-> "x", min_len |-> 1,
       max_len |-> 2],
      [type |-> "str", optional |-> TRUE, destination |-> "y", max_len |-> 3],
      [type |-> "float", strict |-> FALSE, optional |-> TRUE],
      [type |-> "tuple", optional |-> TRUE, destination |-> "x"],
      [type |-> "dict", children |-> <<<<KAge, AgeStrict>>>>],
      [type |-> "dict", strict |-> FALSE, optional |-> TRUE, destination |-> "x",
       children |-> <<<<KAge, AgeCast>>, <<KZip, ZipOptional>>>>] }

\* children.items(): one or two keys, in either order.
ChildItems ==
    {<<<<k, n>>>> : k \in {KName, KInfo}, n \in ChildNodes}
    \cup {<<<<ks[1], n1>>, <<ks[2], n2>>>> :
            ks \in {<<KName, KInfo>>, <<KInfo, KName>>},
            n1 \in ChildNodes, n2 \in ChildNodes}

MappingNodes ==
    {[type |-> "dict", children |-> c] @@ s @@ d :
        c \in ChildItems, s \in {NoField, [strict |-> FALSE]},
        d \in {NoField, [destination |-> "x"]}}

\* The mapping argument: a dictionary with the one key "root".
Schemas == {[root |-> n] : n \in SingleNodes \cup MappingNodes}

ScalarValues ==
    { PyNone, PyInt(7), PyInt(-12), PyFloat(15, 1), PyFloat(-2, 0),
      PyStr(<<>>), PyStr(<<"7">>), PyStr(<<"7", "8">>), PyStr(<<"a", "b">>),
      PyStr(<<"a", "b", "c", "d">>), PyStr(<<"-", "1", ".", "5", "0">>),
      PyStr(<<".">>) }

ContainerValues ==
    { PyList(<<>>), PyList(<<PyStr(<<"a", "b">>)>>), PyList(<<PyInt(7)>>),
      PyList(<<PyStr(<<"a">>)>>),
      PyList(<<PyList(<<KName, PyInt(7)>>), PyList(<<KName, PyStr(<<"a">>)>>)>>),
      PyList(<<PyList(<<PyList(<<>>), PyInt(1)>>)>>),
      PyDict(<<>>) }

\* The values found under name and info.
FieldValues ==
    { PyInt(7), PyStr(<<"7", "8">>), PyStr(<<"a", "b", "c">>), PyNone,
      PyDict(<<>>),
      PyDict(<<<<KAge, PyStr(<<"7", "8">>)>>>>),
      PyDict(<<<<KNotUsed, PyInt(5)>>, <<KAge, PyInt(7)>>, <<KZip, PyStr(<<"a", "b", "c">>)>>>>),
      PyList(<<PyList(<<KAge, PyFloat(785, 1)>>)>>) }

FieldItems(key) == {<<>>} \cup {<<<<key, v>>>> : v \in FieldValues}

MappingValues ==
    {PyDict(<<<<KNotUsed, PyInt(5)>>>> \o n \o i) :
        n \in FieldItems(KName), i \in FieldItems(KInfo)}

DataValues == ScalarValues \cup ContainerValues \cup MappingValues

\* The data of the calls that follow the first call on a schema.
LaterValues ==
    { PyInt(7), PyStr(<<"a", "b">>),
      PyDict(<<<<KNotUsed, PyInt(5)>>, <<KName, PyInt(7)>>,
               <<KInfo, PyDict(<<<<KAge, PyStr(<<"7", "8">>)>>>>)>>>>) }

(***************************************************************************)
(* The state: the caller's data and schema, the out and the frames of the  *)
(* call in progress, how the call ended (pc, err), and a record of the     *)
(* traversal: the nodes __bind ran on (visited), the iterations of the     *)
(* children loop (iterated) and the place of the node that failed.         *)
(***************************************************************************)
Init ==
    /\ schema \in Schemas
    /\ data = PyNone
    /\ out = NewOut(<<>>)
    /\ stack = <<>>
    /\ pc = "idle"
    /\ err = NoErr
    /\ visited = <<>>
    /\ iterated = <<>>
    /\ failLoc = <<>>

\* Lines 200-202: the caller calls bind(d, schema); bind makes out and calls
\* __bind on the root.
Call ==
    /\ pc # "running"
    /\ stack = <<>>
    /\ \E d \in IF pc = "idle" THEN DataValues ELSE LaterValues :
          /\ data' = d
          /\ stack' = <<Frame(d, schema["root"], RootPath, RootPath)>>
    /\ out' = NewOut(out)
    /\ pc' = "running"
    /\ err' = NoErr
    /\ visited' = <<>>
    /\ iterated' = <<>>
    /\ failLoc' = <<>>
    /\ UNCHANGED schema

\* Lines 206-243: the body of __bind up to the loop over the children.
Visit ==
    /\ stack # <<>>
    /\ Top.i = 0
    /\ LET f == Top
           t == f.mapping["type"]
           strict == Get(f.mapping, "strict", TRUE)
           known == IsKnownType(t)
           tr == TypeResolution(f.value, t, strict, f.path)
           resolved == known /\ tr.err = NoErr
           mem == [data |-> data, schema |-> schema, out |-> out]
           after == IF resolved /\ DestinationSet(f.mapping)
                    THEN StoreDestination(mem, f.mapping.destination, tr.final)
                    ELSE mem
           violation == IF resolved /\ t = "str"
                        THEN LengthViolation(f.mapping, tr.final) ELSE <<>>
           e == IF ~known THEN BindException(f.path, UnknownTypeMsg(t))
                ELSE IF tr.err # NoErr THEN tr.err
                ELSE IF violation # <<>>
                THEN InvalidStringLengthException(f.path, f.value, violation)
                ELSE NoErr
       IN /\ data' = after.data
          /\ schema' = after.schema
          /\ out' = after.out
          /\ err' = IF e # NoErr THEN e ELSE err
          /\ pc' = IF e # NoErr THEN "raised" ELSE pc
          /\ failLoc' = IF e # NoErr THEN f.loc ELSE failLoc
          /\ stack' = IF e # NoErr THEN PropagateException(stack)
                      ELSE IF t = "dict"
                      THEN [stack EXCEPT ![Len(stack)] =
                              [f EXCEPT !.final_value = tr.final, !.i = 1]]
                      ELSE Pop(stack)
          /\ visited' = Append(visited,
                [loc |-> f.loc, node |-> f.mapping, value |-> f.value,
                 resolved |-> resolved,
                 final |-> IF resolved THEN tr.final ELSE PyNone,
                 exc |-> e.kind, outBefore |-> out])
          /\ UNCHANGED iterated

\* Lines 244-253: one iteration of the loop over children.items().
ChildStep ==
    /\ stack # <<>>
    /\ Top.i \in 1..Len(ChildrenOf(Top.mapping))
    /\ LET f == Top
           key == ChildrenOf(f.mapping)[f.i][1]
           node == ChildrenOf(f.mapping)[f.i][2]
           path == ExtendPath(f.path, key)
           present == ChildPresent(key, f.final_value)
           missing == ~present /\ ~IsOptional(node)
           next == [f EXCEPT !.path = path, !.i = f.i + 1]
       IN /\ err' = IF missing THEN RequiredValueMissingException(path, key) ELSE err
          /\ pc' = IF missing THEN "raised" ELSE pc
          /\ failLoc' = IF missing THEN Append(f.loc, key) ELSE failLoc
          /\ stack' = IF missing THEN PropagateException(stack)
                      ELSE IF ~present THEN [stack EXCEPT ![Len(stack)] = next]
                      ELSE Append([stack EXCEPT ![Len(stack)] = next],
                                  Frame(GetItem(f.final_value, key), node, path,
                                        Append(f.loc, key)))
          /\ iterated' = Append(iterated,
                [loc |-> Append(f.loc, key), key |-> key, node |-> node,
                 parent |-> f.final_value,
                 step |-> IF missing THEN "raise"
                          ELSE IF ~present THEN "skip" ELSE "descend"])
          /\ UNCHANGED <<data, schema, out, visited>>

\* The loop over the children is exhausted: __bind returns to its caller.
LoopEnd ==
    /\ stack # <<>>
    /\ Top.i > Len(ChildrenOf(Top.mapping))
    /\ stack' = Pop(stack)
    /\ UNCHANGED <<data, schema, out, pc, err, visited, iterated, failLoc>>

\* Line 203: the root's __bind has returned; bind returns out.
Return ==
    /\ stack = <<>>
    /\ pc = "running"
    /\ pc' = "returned"
    /\ UNCHANGED <<data, schema, out, stack, err, visited, iterated, failLoc>>

Next == Call \/ Visit \/ ChildStep \/ LoopEnd \/ Return

Spec == Init /\ [][Next]_vars

(***************************************************************************)
(* The claims.  They read the record of the traversal (visited, iterated,  *)
(* failLoc) and state what the specification says of it in its own terms.  *)
(***************************************************************************)
RecognizedTypes == {"str", "int", "float", "dict", "list"}

StrictFlag(node) == IF "strict" \in DOMAIN node THEN node.strict ELSE TRUE

OptionalFlag(node) == IF "optional" \in DOMAIN node THEN node.optional ELSE FALSE

DestinationOf(node) == IF "destination" \in DOMAIN node THEN node.destination ELSE ""

LengthBound(node, field) == IF field \in DOMAIN node THEN node[field] ELSE 0

ChildrenItems(node) == IF "children" \in DOMAIN node THEN node.children ELSE <<>>

KeyIn(key, mappingValue) ==
    \E k \in 1..Len(mappingValue.items) : mappingValue.items[k][1] = key

IsPrefix(p, q) == Len(p) <= Len(q) /\ SubSeq(q, 1, Len(p)) = p

LastVisited == visited[Len(visited)]

\* C1: when bind fails with an error that carries a path, the path is the root
\* marker followed by the keys of the Mapping descents that lead from the root
\* to the failing node, and nothing else (no segment of an earlier sibling).
C1_PathIsDescentPath ==
    (pc = "raised" /\ "path" \in DOMAIN err) => err.path = failLoc

\* C2: on a non-strict node of a recognized type, a failed coercion of any
\* kind ends bind with InvalidType(found, expected, value, strict=false), and
\* with no other kind of error.
C2_CoercionFailureIsInvalidType ==
    \A i \in 1..Len(visited) :
        LET v == visited[i] IN
        (/\ ~StrictFlag(v.node)
         /\ v.node.type \in RecognizedTypes
         /\ ~v.resolved)
        => /\ pc = "raised"
           /\ err.kind = "InvalidTypeException"
           /\ err.found_type = v.value.ty
           /\ err.expected_type = v.node.type
           /\ err.value = v.value
           /\ err.strict = FALSE

\* C3: on a strict node (strict true or omitted) of a recognized type, a value
\* whose runtime type is not exactly the expected type ends bind with
\* InvalidType(found = its runtime type, expected, value, strict=true), also
\* when a cast would succeed; a value of exactly that type is the final value,
\* unchanged.
C3_StrictTypeEnforcement ==
    \A i \in 1..Len(visited) :
        LET v == visited[i] IN
        (StrictFlag(v.node) /\ v.node.type \in RecognizedTypes)
        => IF v.value.ty # v.node.type
           THEN /\ ~v.resolved
                /\ i = Len(visited)
                /\ pc = "raised"
                /\ err.kind = "InvalidTypeException"
                /\ err.found_type = v.value.ty
                /\ err.expected_type = v.node.type
                /\ err.value = v.value
                /\ err.strict = TRUE
           ELSE v.resolved /\ v.final = v.value /\ v.exc # "InvalidTypeException"

C3_Witness ==
    /\ pc = "raised"
    /\ Len(visited) = 2
    /\ visited[1].node.type = "dict" /\ visited[1].final = visited[1].value
    /\ "strict" \notin DOMAIN visited[2].node
    /\ visited[2].node.type = "int"
    /\ visited[2].value = PyStr(<<"7", "8">>)
    /\ err.kind = "InvalidTypeException" /\ err.strict = TRUE

\* C4: a child key absent from the final mapping value of its node: when the
\* child is not optional, bind fails with RequiredValueMissing naming the key;
\* when it is optional, nothing is raised for it, no node of its subtree is
\* visited, and the loop goes on to the remaining children (a call that
\* returns has iterated over every child of every mapping node it visited).
C4_OptionalAndRequired ==
    /\ \A j \in 1..Len(iterated) :
          LET it == iterated[j] IN
          IF KeyIn(it.key, it.parent)
          THEN it.step = "descend"
          ELSE IF OptionalFlag(it.node)
          THEN /\ it.step = "skip"
               /\ \A i \in 1..Len(visited) : ~IsPrefix(it.loc, visited[i].loc)
               /\ (pc = "raised" => failLoc # it.loc)
          ELSE /\ it.step = "raise"
               /\ j = Len(iterated)
               /\ pc = "raised"
               /\ err.kind = "RequiredValueMissingException"
               /\ err.key = it.key
    /\ pc = "returned" =>
          \A i \in 1..Len(visited) :
             \A c \in 1..Len(ChildrenItems(visited[i].node)) :
                visited[i].node.type = "dict" =>
                   \E j \in 1..Len(iterated) :
                      iterated[j].loc
                        = Append(visited[i].loc, ChildrenItems(visited[i].node)[c][1])

C4_Witness ==
    /\ pc = "returned"
    /\ Len(iterated) = 2
    /\ iterated[1].step = "skip"
    /\ iterated[1].node.type = "dict"
    /\ ChildrenItems(iterated[1].node) # <<>>
    /\ iterated[2].step = "descend"
    /\ DOMAIN out = {"y"}

\* C5: on a str node the length constraints bear on the final (post-cast)
\* string: min_len set (not zero) and a shorter string fail with
\* InvalidStringLength ">= min_len"; otherwise max_len set (not zero) and a
\* longer string fail with "<= max_len"; otherwise the node passes.  min_len
\* comes first when both are violated; zero or unset never fails.
C5_StringLength ==
    \A i \in 1..Len(visited) :
        LET v == visited[i]
            n == Len(v.final.s)
            mn == LengthBound(v.node, "min_len")
            mx == LengthBound(v.node, "max_len")
        IN (v.node.type = "str" /\ v.resolved)
           => IF mn # 0 /\ n < mn
              THEN /\ v.exc = "InvalidStringLengthException"
                   /\ i = Len(visited) /\ pc = "raised"
                   /\ err.kind = "InvalidStringLengthException"
                   /\ err.constraint = <<">", "=", " ">> \o IntRepr(mn)
              ELSE IF mx # 0 /\ n > mx
              THEN /\ v.exc = "InvalidStringLengthException"
                   /\ i = Len(visited) /\ pc = "raised"
                   /\ err.kind = "InvalidStringLengthException"
                   /\ err.constraint = <<"<", "=", " ">> \o IntRepr(mx)
              ELSE v.exc = "none"

\* an empty list cast to the string "[]", longer than max_len and shorter than
\* min_len
C5_Witness ==
    /\ pc = "raised"
    /\ err.kind = "InvalidStringLengthException"
    /\ LastVisited.value = PyList(<<>>)
    /\ LastVisited.final = PyStr(<<"[", "]">>)
    /\ LengthBound(LastVisited.node, "max_len") = 1
    /\ LengthBound(LastVisited.node, "min_len") = 3
    /\ err.constraint = <<">", "=", " ", "3">>

\* C6: when bind returns, the keys of the output are exactly the non-empty
\* destinations of the visited nodes, each holding the final value of a
\* visited node with that destination; the visited nodes are the root and
\* every child whose key is in the final mapping value of its (visited) node;
\* a final value is the input itself on a strict node and a value of the
\* expected type on a non-strict one (the input itself when it already has
\* that type).
C6_OutputOnSuccess ==
    pc = "returned" =>
       /\ DOMAIN out = {DestinationOf(visited[i].node) : i \in 1..Len(visited)} \ {""}
       /\ \A d \in DOMAIN out :
             \E i \in 1..Len(visited) :
                DestinationOf(visited[i].node) = d /\ out[d] = visited[i].final
       /\ visited[1].loc = RootPath /\ visited[1].value = data
       /\ \A i \in 1..Len(visited) :
             LET v == visited[i] IN
             /\ v.resolved
             /\ IF StrictFlag(v.node) THEN v.final = v.value
                ELSE /\ v.final.ty = v.node.type
                     /\ (v.value.ty = v.node.type => v.final = v.value)
             /\ v.node.type = "dict" =>
                   \A c \in 1..Len(ChildrenItems(v.node)) :
                      LET key == ChildrenItems(v.node)[c][1] IN
                      KeyIn(key, v.final)
                      <=> \E k \in 1..Len(visited) :
                             /\ visited[k].loc = Append(v.loc, key)
                             /\ visited[k].node = ChildrenItems(v.node)[c][2]
                             /\ visited[k].value = GetItem(v.final, key)
       /\ Len(visited)
            = 1 + Cardinality({<<i, c>> \in (1..Len(visited)) \X (1..2) :
                                 /\ visited[i].node.type = "dict"
                                 /\ c <= Len(ChildrenItems(visited[i].node))
                                 /\ KeyIn(ChildrenItems(visited[i].node)[c][1],
                                          visited[i].final)})

\* name -> "y" cast from 7.85..., info.age -> "age" cast from "78"; not_used
\* and the node without destination leave nothing
C6_Witness ==
    /\ pc = "returned"
    /\ Len(visited) = 3
    /\ "destination" \notin DOMAIN visited[1].node
    /\ KeyIn(KNotUsed, data)
    /\ DOMAIN out = {"x", "age"}
    /\ out["age"] = PyInt(78)
    /\ \E i \in 1..Len(visited) : visited[i].value = PyStr(<<"7", "8">>)

\* C7: no local recovery: the first violation ends the call.  A failing node
\* is the last one visited and a failing iteration the last one made, a call
\* that has failed has no frame left, never returns an output, and nothing is
\* visited or written after the failure.
C7_FailureIsLast ==
    /\ \A i \in 1..Len(visited) : visited[i].exc # "none" => i = Len(visited)
    /\ \A j \in 1..Len(iterated) : iterated[j].step = "raise" => j = Len(iterated)
    /\ (\E i \in 1..Len(visited) : visited[i].exc # "none") => pc = "raised"
    /\ (\E j \in 1..Len(iterated) : iterated[j].step = "raise") => pc = "raised"
    /\ pc = "raised" => stack = <<>> /\ err # NoErr

C7_NothingAfterFailure ==
    pc = "raised" =>
       /\ pc' # "returned"
       /\ pc' = "raised" => (out' = out /\ visited' = visited /\ iterated' = iterated)

\* C7: the first violation ends the call: the failure is the last thing the
\* traversal did, and nothing is visited, written or returned after it.
C7_NoLocalRecovery == []C7_FailureIsLast /\ [][C7_NothingAfterFailure]_vars

\* name fails after its destination was written; info, which the data holds,
\* is never visited
C7_Witness ==
    /\ pc = "raised"
    /\ Len(visited) = 2
    /\ Len(ChildrenItems(visited[1].node)) = 2
    /\ ChildrenItems(visited[1].node)[1][1] = KName
    /\ KeyIn(KInfo, data)
    /\ failLoc = Append(RootPath, KName)
    /\ err.kind = "InvalidStringLengthException"
    /\ "x" \in DOMAIN out

\* C8: a call leaves the schema and its data as they were; what it writes is
\* its own out, made empty at the call, and its own path, which starts at the
\* root marker, whatever the calls before it did.
C8_Frame ==
    /\ schema' = schema
    /\ pc = "running" => data' = data
    /\ (pc # "running" /\ pc' = "running") =>
          /\ DOMAIN out' = {}
          /\ Len(stack') = 1
          /\ stack'[1].path = RootPath
          /\ stack'[1].value = data'
          /\ stack'[1].mapping = schema.root

\* C8: every step leaves the schema unchanged, a call in progress leaves its
\* data unchanged, and a new call starts from an empty out and the root path.
C8_NoSideEffects == [][C8_Frame]_vars

\* a strict mapping root written to the output (out holds the data itself)
\* while its children are visited
C8_Witness ==
    /\ pc = "running"
    /\ "x" \in DOMAIN out
    /\ Len(visited) = 2
    /\ visited[1].final = data
    /\ data.ty = "dict"
    /\ DestinationOf(visited[1].node) = "x"
    /\ DestinationOf(visited[2].node) = "y"
    /\ "y" \in DOMAIN out

\* C9: a visited node whose type is none of the five recognized ones ends bind
\* with the generic BindException carrying the path and a message, whatever
\* the value and the strict flag, never with InvalidType, and nothing is
\* written to the output for it.
C9_UnknownType ==
    \A i \in 1..Len(visited) :
        LET v == visited[i] IN
        v.node.type \notin RecognizedTypes
        => /\ i = Len(visited)
           /\ pc = "raised"
           /\ v.exc = "BindException"
           /\ err.kind = "BindException"
           /\ DOMAIN err = {"kind", "path", "msg"}
           /\ ~v.resolved
           /\ out = v.outBefore

C9_Witness ==
    /\ pc = "raised"
    /\ err.kind = "BindException"
    /\ Len(visited) = 2
    /\ DestinationOf(LastVisited.node) = "x"
    /\ LastVisited.value = PyNone
    /\ DOMAIN out = {}

\* C10: a destination is written when its node is visited, before the
\* children of the node: at every moment the output holds, for each
\* destination, the final value of the node visited last among those with that
\* destination, so on success the later-visited node has overwritten the
\* earlier one, and no error is raised for the collision.
C10_LaterWriteWins ==
    /\ \A d \in DOMAIN out :
          \E i \in 1..Len(visited) :
             /\ visited[i].resolved
             /\ DestinationOf(visited[i].node) = d
             /\ out[d] = visited[i].final
             /\ \A k \in (i + 1)..Len(visited) :
                   visited[k].resolved => DestinationOf(visited[k].node) # d
    /\ \A i \in 1..Len(visited) :
          (visited[i].resolved /\ DestinationOf(visited[i].node) # "")
          => DestinationOf(visited[i].node) \in DOMAIN out

\* the root mapping and the node under info.age both write "x"
C10_Witness ==
    /\ pc = "returned"
    /\ Len(visited) = 3
    /\ DestinationOf(visited[1].node) = "x"
    /\ DestinationOf(visited[3].node) = "x"
    /\ Len(visited[3].loc) = 3
    /\ visited[1].final # visited[3].final
    /\ out["x"] = visited[3].final

====
